---- MODULE Spec2Model ----
(***************************************************************************)
(* The line tokenizer of rbasic (src/src/lexer.rs).                        *)
(*                                                                         *)
(* A character is a one-character string and a line of text is a sequence  *)
(* of characters, so "10 GOTO 5" is <<"1","0"," ","G","O","T","O"," ","5">>.*)
(* A Token is a record tagged by the name of its variant.  A TokenAndPos   *)
(* is the pair <<pos, token>>.  A Result is a record tagged Ok or Err.     *)
(*                                                                         *)
(* tokenize_line is a pure function: the operator tokenize_line computes   *)
(* it by iterating loop_body, the body of its while loop, and the          *)
(* specification Spec runs the same loop one iteration per step on a line  *)
(* drawn from Lines.  SpecPrec applies Token's operator predicates.        *)
(***************************************************************************)
EXTENDS Integers, Sequences, FiniteSets

VARIABLES line, char_iter, line_number, tokens, ret, tok, answer

vars == <<line, char_iter, line_number, tokens, ret, tok, answer>>

(***************************************************************************)
(* Characters                                                              *)
(***************************************************************************)
AsciiDigits == {"0", "1", "2", "3", "4", "5", "6", "7", "8", "9"}

AsciiLetters ==
    {"a", "b", "c", "d", "e", "f", "g", "h", "i", "j", "k", "l", "m",
     "n", "o", "p", "q", "r", "s", "t", "u", "v", "w", "x", "y", "z",
     "A", "B", "C", "D", "E", "F", "G", "H", "I", "J", "K", "L", "M",
     "N", "O", "P", "Q", "R", "S", "T", "U", "V", "W", "X", "Y", "Z"}

\* A character that a string of this module cannot hold is written as its
\* code point, "U+2003" for the em space.

\* The characters with the Unicode property White_Space.
UnicodeWhiteSpace ==
    {"\t", "\n", "", "\f", "\r", " ", "", " ", " ", "U+2000", "U+2001",
     "U+2002", "U+2003", "U+2004", "U+2005", "U+2006", "U+2007", "U+2008",
     "U+2009", "U+200A", "U+2028", "U+2029", "U+202F", "U+205F", "U+3000"}

\* The characters other than the ASCII digits in the Unicode general
\* categories Nd, Nl and No (Unicode 17, as in rustc 1.95): digits of other
\* scripts, superscripts, fractions, Roman numerals, circled digits.
UnicodeNumeric ==
    {"²", "³", "¹", "¼", "½", "¾", "U+0660", "U+0661", "U+0662", "U+0663",
     "U+0664", "U+0665", "U+0666", "U+0667", "U+0668", "U+0669", "۰", "۱",
     "۲", "۳", "۴", "۵", "۶", "۷", "۸", "۹", "߀", "߁", "߂", "߃", "߄", "߅",
     "߆", "߇", "߈", "߉", "U+0966", "U+0967", "U+0968", "U+0969", "U+096A",
     "U+096B", "U+096C", "U+096D", "U+096E", "U+096F", "০", "১", "২", "৩",
     "৪", "৫", "৬", "৭", "৮", "৯", "৴", "৵", "৶", "৷", "৸", "৹", "U+0A66",
     "U+0A67", "U+0A68", "U+0A69", "U+0A6A", "U+0A6B", "U+0A6C", "U+0A6D",
     "U+0A6E", "U+0A6F", "૦", "૧", "૨", "૩", "૪", "૫", "૬", "૭", "૮", "૯",
     "U+0B66", "U+0B67", "U+0B68", "U+0B69", "U+0B6A", "U+0B6B", "U+0B6C",
     "U+0B6D", "U+0B6E", "U+0B6F", "U+0B72", "U+0B73", "U+0B74", "U+0B75",
     "U+0B76", "U+0B77", "௦", "௧", "௨", "௩", "௪", "௫", "௬", "௭", "௮", "௯",
     "௰", "௱", "௲", "U+0C66", "U+0C67", "U+0C68", "U+0C69", "U+0C6A",
     "U+0C6B", "U+0C6C", "U+0C6D", "U+0C6E", "U+0C6F", "U+0C78", "U+0C79",
     "U+0C7A", "U+0C7B", "U+0C7C", "U+0C7D", "U+0C7E", "೦", "೧", "೨", "೩",
     "೪", "೫", "೬", "೭", "೮", "೯", "U+0D58", "U+0D59", "U+0D5A", "U+0D5B",
     "U+0D5C", "U+0D5D", "U+0D5E", "U+0D66", "U+0D67", "U+0D68", "U+0D69",
     "U+0D6A", "U+0D6B", "U+0D6C", "U+0D6D", "U+0D6E", "U+0D6F", "U+0D70",
     "U+0D71", "U+0D72", "U+0D73", "U+0D74", "U+0D75", "U+0D76", "U+0D77",
     "U+0D78", "෦", "෧", "෨", "෩", "෪", "෫", "෬", "෭", "෮", "෯", "U+0E50",
     "U+0E51", "U+0E52", "U+0E53", "U+0E54", "U+0E55", "U+0E56", "U+0E57",
     "U+0E58", "U+0E59", "໐", "໑", "໒", "໓", "໔", "໕", "໖", "໗", "໘", "໙",
     "U+0F20", "U+0F21", "U+0F22", "U+0F23", "U+0F24", "U+0F25", "U+0F26",
     "U+0F27", "U+0F28", "U+0F29", "U+0F2A", "U+0F2B", "U+0F2C", "U+0F2D",
     "U+0F2E", "U+0F2F", "U+0F30", "U+0F31", "U+0F32", "U+0F33", "U+1040",
     "U+1041", "U+1042", "U+1043", "U+1044", "U+1045", "U+1046", "U+1047",
     "U+1048", "U+1049", "႐", "႑", "႒", "႓", "႔", "႕", "႖", "႗", "႘", "႙",
     "U+1369", "U+136A", "U+136B", "U+136C", "U+136D", "U+136E", "U+136F",
     "U+1370", "U+1371", "U+1372", "U+1373", "U+1374", "U+1375", "U+1376",
     "U+1377", "U+1378", "U+1379", "U+137A", "U+137B", "U+137C", "ᛮ", "ᛯ",
     "ᛰ", "០", "១", "២", "៣", "៤", "៥", "៦", "៧", "៨", "៩", "៰", "៱", "៲",
     "៳", "៴", "៵", "៶", "៷", "៸", "៹", "U+1810", "U+1811", "U+1812",
     "U+1813", "U+1814", "U+1815", "U+1816", "U+1817", "U+1818", "U+1819",
     "U+1946", "U+1947", "U+1948", "U+1949", "U+194A", "U+194B", "U+194C",
     "U+194D", "U+194E", "U+194F", "᧐", "᧑", "᧒", "᧓", "᧔", "᧕", "᧖", "᧗",
     "᧘", "᧙", "᧚", "᪀", "᪁", "᪂", "᪃", "᪄", "᪅", "᪆", "᪇", "᪈", "᪉", "᪐",
     "᪑", "᪒", "᪓", "᪔", "᪕", "᪖", "᪗", "᪘", "᪙", "U+1B50", "U+1B51",
     "U+1B52", "U+1B53", "U+1B54", "U+1B55", "U+1B56", "U+1B57", "U+1B58",
     "U+1B59", "᮰", "᮱", "᮲", "᮳", "᮴", "᮵", "᮶", "᮷", "᮸", "᮹", "U+1C40",
     "U+1C41", "U+1C42", "U+1C43", "U+1C44", "U+1C45", "U+1C46", "U+1C47",
     "U+1C48", "U+1C49", "U+1C50", "U+1C51", "U+1C52", "U+1C53", "U+1C54",
     "U+1C55", "U+1C56", "U+1C57", "U+1C58", "U+1C59", "U+2070", "U+2074",
     "U+2075", "U+2076", "U+2077", "U+2078", "U+2079", "₀", "₁", "₂", "₃",
     "₄", "₅", "₆", "₇", "₈", "₉", "U+2150", "U+2151", "U+2152", "U+2153",
     "U+2154", "U+2155", "U+2156", "U+2157", "U+2158", "U+2159", "U+215A",
     "U+215B", "U+215C", "U+215D", "U+215E", "U+215F", "U+2160", "U+2161",
     "U+2162", "U+2163", "U+2164", "U+2165", "U+2166", "U+2167", "U+2168",
     "U+2169", "U+216A", "U+216B", "U+216C", "U+216D", "U+216E", "U+216F",
     "U+2170", "U+2171", "U+2172", "U+2173", "U+2174", "U+2175", "U+2176",
     "U+2177", "U+2178", "U+2179", "U+217A", "U+217B", "U+217C", "U+217D",
     "U+217E", "U+217F", "ↀ", "ↁ", "ↂ", "ↅ", "ↆ", "ↇ", "ↈ", "↉", "U+2460",
     "U+2461", "U+2462", "U+2463", "U+2464", "U+2465", "U+2466", "U+2467",
     "U+2468", "U+2469", "U+246A", "U+246B", "U+246C", "U+246D", "U+246E",
     "U+246F", "U+2470", "U+2471", "U+2472", "U+2473", "U+2474", "U+2475",
     "U+2476", "U+2477", "U+2478", "U+2479", "U+247A", "U+247B", "U+247C",
     "U+247D", "U+247E", "U+247F", "⒀", "⒁", "⒂", "⒃", "⒄", "⒅", "⒆", "⒇",
     "⒈", "⒉", "⒊", "⒋", "⒌", "⒍", "⒎", "⒏", "⒐", "⒑", "⒒", "⒓", "⒔", "⒕",
     "⒖", "⒗", "⒘", "⒙", "⒚", "⒛", "⓪", "⓫", "⓬", "⓭", "⓮", "⓯", "⓰", "⓱",
     "⓲", "⓳", "⓴", "⓵", "⓶", "⓷", "⓸", "⓹", "⓺", "⓻", "⓼", "⓽", "⓾", "⓿",
     "U+2776", "U+2777", "U+2778", "U+2779", "U+277A", "U+277B", "U+277C",
     "U+277D", "U+277E", "U+277F", "➀", "➁", "➂", "➃", "➄", "➅", "➆", "➇",
     "➈", "➉", "➊", "➋", "➌", "➍", "➎", "➏", "➐", "➑", "➒", "➓", "⳽",
     "U+3007", "U+3021", "U+3022", "U+3023", "U+3024", "U+3025", "U+3026",
     "U+3027", "U+3028", "U+3029", "U+3038", "U+3039", "U+303A", "㆒", "㆓",
     "㆔", "㆕", "U+3220", "U+3221", "U+3222", "U+3223", "U+3224", "U+3225",
     "U+3226", "U+3227", "U+3228", "U+3229", "U+3248", "U+3249", "U+324A",
     "U+324B", "U+324C", "U+324D", "U+324E", "U+324F", "U+3251", "U+3252",
     "U+3253", "U+3254", "U+3255", "U+3256", "U+3257", "U+3258", "U+3259",
     "U+325A", "U+325B", "U+325C", "U+325D", "U+325E", "U+325F", "㊀", "㊁",
     "㊂", "㊃", "㊄", "㊅", "㊆", "㊇", "㊈", "㊉", "㊱", "㊲", "㊳", "㊴", "㊵", "㊶",
     "㊷", "㊸", "㊹", "㊺", "㊻", "㊼", "㊽", "㊾", "㊿", "U+A620", "U+A621",
     "U+A622", "U+A623", "U+A624", "U+A625", "U+A626", "U+A627", "U+A628",
     "U+A629", "ꛦ", "ꛧ", "ꛨ", "ꛩ", "ꛪ", "ꛫ", "ꛬ", "ꛭ", "ꛮ", "ꛯ", "U+A830",
     "U+A831", "U+A832", "U+A833", "U+A834", "U+A835", "꣐", "꣑", "꣒", "꣓",
     "꣔", "꣕", "꣖", "꣗", "꣘", "꣙", "U+A900", "U+A901", "U+A902", "U+A903",
     "U+A904", "U+A905", "U+A906", "U+A907", "U+A908", "U+A909", "꧐", "꧑",
     "꧒", "꧓", "꧔", "꧕", "꧖", "꧗", "꧘", "꧙", "꧰", "꧱", "꧲", "꧳", "꧴", "꧵",
     "꧶", "꧷", "꧸", "꧹", "U+AA50", "U+AA51", "U+AA52", "U+AA53", "U+AA54",
     "U+AA55", "U+AA56", "U+AA57", "U+AA58", "U+AA59", "꯰", "꯱", "꯲", "꯳",
     "꯴", "꯵", "꯶", "꯷", "꯸", "꯹", "U+FF10", "U+FF11", "U+FF12", "U+FF13",
     "U+FF14", "U+FF15", "U+FF16", "U+FF17", "U+FF18", "U+FF19", "U+10107",
     "U+10108", "U+10109", "U+1010A", "U+1010B", "U+1010C", "U+1010D",
     "U+1010E", "U+1010F", "U+10110", "U+10111", "U+10112", "U+10113",
     "U+10114", "U+10115", "U+10116", "U+10117", "U+10118", "U+10119",
     "U+1011A", "U+1011B", "U+1011C", "U+1011D", "U+1011E", "U+1011F",
     "U+10120", "U+10121", "U+10122", "U+10123", "U+10124", "U+10125",
     "U+10126", "U+10127", "U+10128", "U+10129", "U+1012A", "U+1012B",
     "U+1012C", "U+1012D", "U+1012E", "U+1012F", "U+10130", "U+10131",
     "U+10132", "U+10133", "U+10140", "U+10141", "U+10142", "U+10143",
     "U+10144", "U+10145", "U+10146", "U+10147", "U+10148", "U+10149",
     "U+1014A", "U+1014B", "U+1014C", "U+1014D", "U+1014E", "U+1014F",
     "U+10150", "U+10151", "U+10152", "U+10153", "U+10154", "U+10155",
     "U+10156", "U+10157", "U+10158", "U+10159", "U+1015A", "U+1015B",
     "U+1015C", "U+1015D", "U+1015E", "U+1015F", "U+10160", "U+10161",
     "U+10162", "U+10163", "U+10164", "U+10165", "U+10166", "U+10167",
     "U+10168", "U+10169", "U+1016A", "U+1016B", "U+1016C", "U+1016D",
     "U+1016E", "U+1016F", "U+10170", "U+10171", "U+10172", "U+10173",
     "U+10174", "U+10175", "U+10176", "U+10177", "U+10178", "U+1018A",
     "U+1018B", "U+102E1", "U+102E2", "U+102E3", "U+102E4", "U+102E5",
     "U+102E6", "U+102E7", "U+102E8", "U+102E9", "U+102EA", "U+102EB",
     "U+102EC", "U+102ED", "U+102EE", "U+102EF", "U+102F0", "U+102F1",
     "U+102F2", "U+102F3", "U+102F4", "U+102F5", "U+102F6", "U+102F7",
     "U+102F8", "U+102F9", "U+102FA", "U+102FB", "U+10320", "U+10321",
     "U+10322", "U+10323", "U+10341", "U+1034A", "U+103D1", "U+103D2",
     "U+103D3", "U+103D4", "U+103D5", "U+104A0", "U+104A1", "U+104A2",
     "U+104A3", "U+104A4", "U+104A5", "U+104A6", "U+104A7", "U+104A8",
     "U+104A9", "U+10858", "U+10859", "U+1085A", "U+1085B", "U+1085C",
     "U+1085D", "U+1085E", "U+1085F", "U+10879", "U+1087A", "U+1087B",
     "U+1087C", "U+1087D", "U+1087E", "U+1087F", "U+108A7", "U+108A8",
     "U+108A9", "U+108AA", "U+108AB", "U+108AC", "U+108AD", "U+108AE",
     "U+108AF", "U+108FB", "U+108FC", "U+108FD", "U+108FE", "U+108FF",
     "U+10916", "U+10917", "U+10918", "U+10919", "U+1091A", "U+1091B",
     "U+109BC", "U+109BD", "U+109C0", "U+109C1", "U+109C2", "U+109C3",
     "U+109C4", "U+109C5", "U+109C6", "U+109C7", "U+109C8", "U+109C9",
     "U+109CA", "U+109CB", "U+109CC", "U+109CD", "U+109CE", "U+109CF",
     "U+109D2", "U+109D3", "U+109D4", "U+109D5", "U+109D6", "U+109D7",
     "U+109D8", "U+109D9", "U+109DA", "U+109DB", "U+109DC", "U+109DD",
     "U+109DE", "U+109DF", "U+109E0", "U+109E1", "U+109E2", "U+109E3",
     "U+109E4", "U+109E5", "U+109E6", "U+109E7", "U+109E8", "U+109E9",
     "U+109EA", "U+109EB", "U+109EC", "U+109ED", "U+109EE", "U+109EF",
     "U+109F0", "U+109F1", "U+109F2", "U+109F3", "U+109F4", "U+109F5",
     "U+109F6", "U+109F7", "U+109F8", "U+109F9", "U+109FA", "U+109FB",
     "U+109FC", "U+109FD", "U+109FE", "U+109FF", "U+10A40", "U+10A41",
     "U+10A42", "U+10A43", "U+10A44", "U+10A45", "U+10A46", "U+10A47",
     "U+10A48", "U+10A7D", "U+10A7E", "U+10A9D", "U+10A9E", "U+10A9F",
     "U+10AEB", "U+10AEC", "U+10AED", "U+10AEE", "U+10AEF", "U+10B58",
     "U+10B59", "U+10B5A", "U+10B5B", "U+10B5C", "U+10B5D", "U+10B5E",
     "U+10B5F", "U+10B78", "U+10B79", "U+10B7A", "U+10B7B", "U+10B7C",
     "U+10B7D", "U+10B7E", "U+10B7F", "U+10BA9", "U+10BAA", "U+10BAB",
     "U+10BAC", "U+10BAD", "U+10BAE", "U+10BAF", "U+10CFA", "U+10CFB",
     "U+10CFC", "U+10CFD", "U+10CFE", "U+10CFF", "U+10D30", "U+10D31",
     "U+10D32", "U+10D33", "U+10D34", "U+10D35", "U+10D36", "U+10D37",
     "U+10D38", "U+10D39", "U+10D40", "U+10D41", "U+10D42", "U+10D43",
     "U+10D44", "U+10D45", "U+10D46", "U+10D47", "U+10D48", "U+10D49",
     "U+10E60", "U+10E61", "U+10E62", "U+10E63", "U+10E64", "U+10E65",
     "U+10E66", "U+10E67", "U+10E68", "U+10E69", "U+10E6A", "U+10E6B",
     "U+10E6C", "U+10E6D", "U+10E6E", "U+10E6F", "U+10E70", "U+10E71",
     "U+10E72", "U+10E73", "U+10E74", "U+10E75", "U+10E76", "U+10E77",
     "U+10E78", "U+10E79", "U+10E7A", "U+10E7B", "U+10E7C", "U+10E7D",
     "U+10E7E", "U+10F1D", "U+10F1E", "U+10F1F", "U+10F20", "U+10F21",
     "U+10F22", "U+10F23", "U+10F24", "U+10F25", "U+10F26", "U+10F51",
     "U+10F52", "U+10F53", "U+10F54", "U+10FC5", "U+10FC6", "U+10FC7",
     "U+10FC8", "U+10FC9", "U+10FCA", "U+10FCB", "U+11052", "U+11053",
     "U+11054", "U+11055", "U+11056", "U+11057", "U+11058", "U+11059",
     "U+1105A", "U+1105B", "U+1105C", "U+1105D", "U+1105E", "U+1105F",
     "U+11060", "U+11061", "U+11062", "U+11063", "U+11064", "U+11065",
     "U+11066", "U+11067", "U+11068", "U+11069", "U+1106A", "U+1106B",
     "U+1106C", "U+1106D", "U+1106E", "U+1106F", "U+110F0", "U+110F1",
     "U+110F2", "U+110F3", "U+110F4", "U+110F5", "U+110F6", "U+110F7",
     "U+110F8", "U+110F9", "U+11136", "U+11137", "U+11138", "U+11139",
     "U+1113A", "U+1113B", "U+1113C", "U+1113D", "U+1113E", "U+1113F",
     "U+111D0", "U+111D1", "U+111D2", "U+111D3", "U+111D4", "U+111D5",
     "U+111D6", "U+111D7", "U+111D8", "U+111D9", "U+111E1", "U+111E2",
     "U+111E3", "U+111E4", "U+111E5", "U+111E6", "U+111E7", "U+111E8",
     "U+111E9", "U+111EA", "U+111EB", "U+111EC", "U+111ED", "U+111EE",
     "U+111EF", "U+111F0", "U+111F1", "U+111F2", "U+111F3", "U+111F4",
     "U+112F0", "U+112F1", "U+112F2", "U+112F3", "U+112F4", "U+112F5",
     "U+112F6", "U+112F7", "U+112F8", "U+112F9", "U+11450", "U+11451",
     "U+11452", "U+11453", "U+11454", "U+11455", "U+11456", "U+11457",
     "U+11458", "U+11459", "U+114D0", "U+114D1", "U+114D2", "U+114D3",
     "U+114D4", "U+114D5", "U+114D6", "U+114D7", "U+114D8", "U+114D9",
     "U+11650", "U+11651", "U+11652", "U+11653", "U+11654", "U+11655",
     "U+11656", "U+11657", "U+11658", "U+11659", "U+116C0", "U+116C1",
     "U+116C2", "U+116C3", "U+116C4", "U+116C5", "U+116C6", "U+116C7",
     "U+116C8", "U+116C9", "U+116D0", "U+116D1", "U+116D2", "U+116D3",
     "U+116D4", "U+116D5", "U+116D6", "U+116D7", "U+116D8", "U+116D9",
     "U+116DA", "U+116DB", "U+116DC", "U+116DD", "U+116DE", "U+116DF",
     "U+116E0", "U+116E1", "U+116E2", "U+116E3", "U+11730", "U+11731",
     "U+11732", "U+11733", "U+11734", "U+11735", "U+11736", "U+11737",
     "U+11738", "U+11739", "U+1173A", "U+1173B", "U+118E0", "U+118E1",
     "U+118E2", "U+118E3", "U+118E4", "U+118E5", "U+118E6", "U+118E7",
     "U+118E8", "U+118E9", "U+118EA", "U+118EB", "U+118EC", "U+118ED",
     "U+118EE", "U+118EF", "U+118F0", "U+118F1", "U+118F2", "U+11950",
     "U+11951", "U+11952", "U+11953", "U+11954", "U+11955", "U+11956",
     "U+11957", "U+11958", "U+11959", "U+11BF0", "U+11BF1", "U+11BF2",
     "U+11BF3", "U+11BF4", "U+11BF5", "U+11BF6", "U+11BF7", "U+11BF8",
     "U+11BF9", "U+11C50", "U+11C51", "U+11C52", "U+11C53", "U+11C54",
     "U+11C55", "U+11C56", "U+11C57", "U+11C58", "U+11C59", "U+11C5A",
     "U+11C5B", "U+11C5C", "U+11C5D", "U+11C5E", "U+11C5F", "U+11C60",
     "U+11C61", "U+11C62", "U+11C63", "U+11C64", "U+11C65", "U+11C66",
     "U+11C67", "U+11C68", "U+11C69", "U+11C6A", "U+11C6B", "U+11C6C",
     "U+11D50", "U+11D51", "U+11D52", "U+11D53", "U+11D54", "U+11D55",
     "U+11D56", "U+11D57", "U+11D58", "U+11D59", "U+11DA0", "U+11DA1",
     "U+11DA2", "U+11DA3", "U+11DA4", "U+11DA5", "U+11DA6", "U+11DA7",
     "U+11DA8", "U+11DA9", "U+11F50", "U+11F51", "U+11F52", "U+11F53",
     "U+11F54", "U+11F55", "U+11F56", "U+11F57", "U+11F58", "U+11F59",
     "U+11FC0", "U+11FC1", "U+11FC2", "U+11FC3", "U+11FC4", "U+11FC5",
     "U+11FC6", "U+11FC7", "U+11FC8", "U+11FC9", "U+11FCA", "U+11FCB",
     "U+11FCC", "U+11FCD", "U+11FCE", "U+11FCF", "U+11FD0", "U+11FD1",
     "U+11FD2", "U+11FD3", "U+11FD4", "U+12400", "U+12401", "U+12402",
     "U+12403", "U+12404", "U+12405", "U+12406", "U+12407", "U+12408",
     "U+12409", "U+1240A", "U+1240B", "U+1240C", "U+1240D", "U+1240E",
     "U+1240F", "U+12410", "U+12411", "U+12412", "U+12413", "U+12414",
     "U+12415", "U+12416", "U+12417", "U+12418", "U+12419", "U+1241A",
     "U+1241B", "U+1241C", "U+1241D", "U+1241E", "U+1241F", "U+12420",
     "U+12421", "U+12422", "U+12423", "U+12424", "U+12425", "U+12426",
     "U+12427", "U+12428", "U+12429", "U+1242A", "U+1242B", "U+1242C",
     "U+1242D", "U+1242E", "U+1242F", "U+12430", "U+12431", "U+12432",
     "U+12433", "U+12434", "U+12435", "U+12436", "U+12437", "U+12438",
     "U+12439", "U+1243A", "U+1243B", "U+1243C", "U+1243D", "U+1243E",
     "U+1243F", "U+12440", "U+12441", "U+12442", "U+12443", "U+12444",
     "U+12445", "U+12446", "U+12447", "U+12448", "U+12449", "U+1244A",
     "U+1244B", "U+1244C", "U+1244D", "U+1244E", "U+1244F", "U+12450",
     "U+12451", "U+12452", "U+12453", "U+12454", "U+12455", "U+12456",
     "U+12457", "U+12458", "U+12459", "U+1245A", "U+1245B", "U+1245C",
     "U+1245D", "U+1245E", "U+1245F", "U+12460", "U+12461", "U+12462",
     "U+12463", "U+12464", "U+12465", "U+12466", "U+12467", "U+12468",
     "U+12469", "U+1246A", "U+1246B", "U+1246C", "U+1246D", "U+1246E",
     "U+16A60", "U+16A61", "U+16A62", "U+16A63", "U+16A64", "U+16A65",
     "U+16A66", "U+16A67", "U+16A68", "U+16A69", "U+16AC0", "U+16AC1",
     "U+16AC2", "U+16AC3", "U+16AC4", "U+16AC5", "U+16AC6", "U+16AC7",
     "U+16AC8", "U+16AC9", "U+16B50", "U+16B51", "U+16B52", "U+16B53",
     "U+16B54", "U+16B55", "U+16B56", "U+16B57", "U+16B58", "U+16B59",
     "U+16B5B", "U+16B5C", "U+16B5D", "U+16B5E", "U+16B5F", "U+16B60",
     "U+16B61", "U+16D70", "U+16D71", "U+16D72", "U+16D73", "U+16D74",
     "U+16D75", "U+16D76", "U+16D77", "U+16D78", "U+16D79", "U+16E80",
     "U+16E81", "U+16E82", "U+16E83", "U+16E84", "U+16E85", "U+16E86",
     "U+16E87", "U+16E88", "U+16E89", "U+16E8A", "U+16E8B", "U+16E8C",
     "U+16E8D", "U+16E8E", "U+16E8F", "U+16E90", "U+16E91", "U+16E92",
     "U+16E93", "U+16E94", "U+16E95", "U+16E96", "U+1CCF0", "U+1CCF1",
     "U+1CCF2", "U+1CCF3", "U+1CCF4", "U+1CCF5", "U+1CCF6", "U+1CCF7",
     "U+1CCF8", "U+1CCF9", "U+1D2C0", "U+1D2C1", "U+1D2C2", "U+1D2C3",
     "U+1D2C4", "U+1D2C5", "U+1D2C6", "U+1D2C7", "U+1D2C8", "U+1D2C9",
     "U+1D2CA", "U+1D2CB", "U+1D2CC", "U+1D2CD", "U+1D2CE", "U+1D2CF",
     "U+1D2D0", "U+1D2D1", "U+1D2D2", "U+1D2D3", "U+1D2E0", "U+1D2E1",
     "U+1D2E2", "U+1D2E3", "U+1D2E4", "U+1D2E5", "U+1D2E6", "U+1D2E7",
     "U+1D2E8", "U+1D2E9", "U+1D2EA", "U+1D2EB", "U+1D2EC", "U+1D2ED",
     "U+1D2EE", "U+1D2EF", "U+1D2F0", "U+1D2F1", "U+1D2F2", "U+1D2F3",
     "U+1D360", "U+1D361", "U+1D362", "U+1D363", "U+1D364", "U+1D365",
     "U+1D366", "U+1D367", "U+1D368", "U+1D369", "U+1D36A", "U+1D36B",
     "U+1D36C", "U+1D36D", "U+1D36E", "U+1D36F", "U+1D370", "U+1D371",
     "U+1D372", "U+1D373", "U+1D374", "U+1D375", "U+1D376", "U+1D377",
     "U+1D378", "U+1D7CE", "U+1D7CF", "U+1D7D0", "U+1D7D1", "U+1D7D2",
     "U+1D7D3", "U+1D7D4", "U+1D7D5", "U+1D7D6", "U+1D7D7", "U+1D7D8",
     "U+1D7D9", "U+1D7DA", "U+1D7DB", "U+1D7DC", "U+1D7DD", "U+1D7DE",
     "U+1D7DF", "U+1D7E0", "U+1D7E1", "U+1D7E2", "U+1D7E3", "U+1D7E4",
     "U+1D7E5", "U+1D7E6", "U+1D7E7", "U+1D7E8", "U+1D7E9", "U+1D7EA",
     "U+1D7EB", "U+1D7EC", "U+1D7ED", "U+1D7EE", "U+1D7EF", "U+1D7F0",
     "U+1D7F1", "U+1D7F2", "U+1D7F3", "U+1D7F4", "U+1D7F5", "U+1D7F6",
     "U+1D7F7", "U+1D7F8", "U+1D7F9", "U+1D7FA", "U+1D7FB", "U+1D7FC",
     "U+1D7FD", "U+1D7FE", "U+1D7FF", "U+1E140", "U+1E141", "U+1E142",
     "U+1E143", "U+1E144", "U+1E145", "U+1E146", "U+1E147", "U+1E148",
     "U+1E149", "U+1E2F0", "U+1E2F1", "U+1E2F2", "U+1E2F3", "U+1E2F4",
     "U+1E2F5", "U+1E2F6", "U+1E2F7", "U+1E2F8", "U+1E2F9", "U+1E4F0",
     "U+1E4F1", "U+1E4F2", "U+1E4F3", "U+1E4F4", "U+1E4F5", "U+1E4F6",
     "U+1E4F7", "U+1E4F8", "U+1E4F9", "U+1E8C7", "U+1E8C8", "U+1E8C9",
     "U+1E8CA", "U+1E8CB", "U+1E8CC", "U+1E8CD", "U+1E8CE", "U+1E8CF",
     "U+1E950", "U+1E951", "U+1E952", "U+1E953", "U+1E954", "U+1E955",
     "U+1E956", "U+1E957", "U+1E958", "U+1E959", "U+1EC71", "U+1EC72",
     "U+1EC73", "U+1EC74", "U+1EC75", "U+1EC76", "U+1EC77", "U+1EC78",
     "U+1EC79", "U+1EC7A", "U+1EC7B", "U+1EC7C", "U+1EC7D", "U+1EC7E",
     "U+1EC7F", "U+1EC80", "U+1EC81", "U+1EC82", "U+1EC83", "U+1EC84",
     "U+1EC85", "U+1EC86", "U+1EC87", "U+1EC88", "U+1EC89", "U+1EC8A",
     "U+1EC8B", "U+1EC8C", "U+1EC8D", "U+1EC8E", "U+1EC8F", "U+1EC90",
     "U+1EC91", "U+1EC92", "U+1EC93", "U+1EC94", "U+1EC95", "U+1EC96",
     "U+1EC97", "U+1EC98", "U+1EC99", "U+1EC9A", "U+1EC9B", "U+1EC9C",
     "U+1EC9D", "U+1EC9E", "U+1EC9F", "U+1ECA0", "U+1ECA1", "U+1ECA2",
     "U+1ECA3", "U+1ECA4", "U+1ECA5", "U+1ECA6", "U+1ECA7", "U+1ECA8",
     "U+1ECA9", "U+1ECAA", "U+1ECAB", "U+1ECAD", "U+1ECAE", "U+1ECAF",
     "U+1ECB1", "U+1ECB2", "U+1ECB3", "U+1ECB4", "U+1ED01", "U+1ED02",
     "U+1ED03", "U+1ED04", "U+1ED05", "U+1ED06", "U+1ED07", "U+1ED08",
     "U+1ED09", "U+1ED0A", "U+1ED0B", "U+1ED0C", "U+1ED0D", "U+1ED0E",
     "U+1ED0F", "U+1ED10", "U+1ED11", "U+1ED12", "U+1ED13", "U+1ED14",
     "U+1ED15", "U+1ED16", "U+1ED17", "U+1ED18", "U+1ED19", "U+1ED1A",
     "U+1ED1B", "U+1ED1C", "U+1ED1D", "U+1ED1E", "U+1ED1F", "U+1ED20",
     "U+1ED21", "U+1ED22", "U+1ED23", "U+1ED24", "U+1ED25", "U+1ED26",
     "U+1ED27", "U+1ED28", "U+1ED29", "U+1ED2A", "U+1ED2B", "U+1ED2C",
     "U+1ED2D", "U+1ED2F", "U+1ED30", "U+1ED31", "U+1ED32", "U+1ED33",
     "U+1ED34", "U+1ED35", "U+1ED36", "U+1ED37", "U+1ED38", "U+1ED39",
     "U+1ED3A", "U+1ED3B", "U+1ED3C", "U+1ED3D", "U+1F100", "U+1F101",
     "U+1F102", "U+1F103", "U+1F104", "U+1F105", "U+1F106", "U+1F107",
     "U+1F108", "U+1F109", "U+1F10A", "U+1F10B", "U+1F10C", "U+1FBF0",
     "U+1FBF1", "U+1FBF2", "U+1FBF3", "U+1FBF4", "U+1FBF5", "U+1FBF6",
     "U+1FBF7", "U+1FBF8", "U+1FBF9",
     "U+11DE0", "U+11DE1", "U+11DE2", "U+11DE3", "U+11DE4", "U+11DE5",
     "U+11DE6", "U+11DE7", "U+11DE8", "U+11DE9", "U+16130", "U+16131",
     "U+16132", "U+16133", "U+16134", "U+16135", "U+16136", "U+16137",
     "U+16138", "U+16139", "U+16FF4", "U+16FF5", "U+16FF6", "U+1E5F1",
     "U+1E5F2", "U+1E5F3", "U+1E5F4", "U+1E5F5", "U+1E5F6", "U+1E5F7",
     "U+1E5F8", "U+1E5F9", "U+1E5FA"}

\* char::is_numeric is Unicode-wide, not the ASCII digits alone.
is_numeric(c) == c \in AsciiDigits \cup UnicodeNumeric

\* char::is_whitespace is Unicode-wide as well.
is_whitespace(c) == c \in UnicodeWhiteSpace

DigitValue(c) ==
    CASE c = "0" -> 0 [] c = "1" -> 1 [] c = "2" -> 2 [] c = "3" -> 3
      [] c = "4" -> 4 [] c = "5" -> 5 [] c = "6" -> 6 [] c = "7" -> 7
      [] c = "8" -> 8 [] c = "9" -> 9

(***************************************************************************)
(* Integer parsing (u32::from_str, i32::from_str).                         *)
(* The standard library accumulates the digits left to right with checked  *)
(* multiplication and addition (subtraction for a negative number) and     *)
(* fails on an empty string, a lone sign, a character that is no ASCII     *)
(* digit, or overflow.                                                     *)
(***************************************************************************)
ParseOk(v) == [ok |-> TRUE, val |-> v]
ParseErr == [ok |-> FALSE]

\* A u32 is held as two 16-bit limbs <<hi, lo>>, value hi * 65536 + lo.
Limb == 65536

U32(hi, lo) == <<hi, lo>>

\* Mutant: the multiplication and addition wrap instead of failing.
U32MulAddWrapping(acc, d) ==
    LET low == acc[2] * 10 + d
        high == acc[1] * 10 + (low \div Limb)
    IN  ParseOk(U32(high % Limb, low % Limb))

\* acc * 10 + d on a u32, or overflow.
U32MulAdd(acc, d) ==
    LET low == acc[2] * 10 + d
        high == acc[1] * 10 + (low \div Limb)
    IN  IF high >= Limb THEN ParseErr ELSE ParseOk(U32(high, low % Limb))

RECURSIVE U32Accumulate(_, _)
U32Accumulate(s, acc) ==
    IF s = <<>> THEN ParseOk(acc)
    ELSE IF Head(s) \notin AsciiDigits THEN ParseErr
    ELSE LET r == U32MulAdd(acc, DigitValue(Head(s)))
         IN  IF r.ok THEN U32Accumulate(Tail(s), r.val) ELSE ParseErr

u32_from_str(s) ==
    IF s = <<>> THEN ParseErr
    ELSE LET digits == IF Head(s) = "+" THEN Tail(s) ELSE s
         IN  IF digits = <<>> THEN ParseErr ELSE U32Accumulate(digits, U32(0, 0))

I32Max == 2147483647
I32Min == -I32Max - 1

\* acc * 10 + d (acc * 10 - d when negative) on an i32, or overflow.
I32MulAdd(acc, d, negative) ==
    IF negative
    THEN IF acc < -(I32Max \div 10) \/ acc * 10 < I32Min + d
         THEN ParseErr ELSE ParseOk(acc * 10 - d)
    ELSE IF acc > I32Max \div 10 \/ acc * 10 > I32Max - d
         THEN ParseErr ELSE ParseOk(acc * 10 + d)

RECURSIVE I32Accumulate(_, _, _)
I32Accumulate(s, acc, negative) ==
    IF s = <<>> THEN ParseOk(acc)
    ELSE IF Head(s) \notin AsciiDigits THEN ParseErr
    ELSE LET r == I32MulAdd(acc, DigitValue(Head(s)), negative)
         IN  IF r.ok THEN I32Accumulate(Tail(s), r.val, negative) ELSE ParseErr

i32_from_str(s) ==
    IF s = <<>> THEN ParseErr
    ELSE LET signed == Head(s) \in {"+", "-"}
             digits == IF signed THEN Tail(s) ELSE s
         IN  IF digits = <<>> THEN ParseErr
             ELSE I32Accumulate(digits, 0, Head(s) = "-")

(***************************************************************************)
(* Token                                                                   *)
(***************************************************************************)
Comment(s) == [kind |-> "Comment", text |-> s]
Variable(s) == [kind |-> "Variable", name |-> s]
Number(n) == [kind |-> "Number", value |-> n]
BString(s) == [kind |-> "BString", text |-> s]
Fixed(k) == [kind |-> k]

Equals == Fixed("Equals")
LessThan == Fixed("LessThan")
GreaterThan == Fixed("GreaterThan")
LessThanEqual == Fixed("LessThanEqual")
GreaterThanEqual == Fixed("GreaterThanEqual")
NotEqual == Fixed("NotEqual")
Multiply == Fixed("Multiply")
Divide == Fixed("Divide")
Minus == Fixed("Minus")
Plus == Fixed("Plus")
LParen == Fixed("LParen")
RParen == Fixed("RParen")
Bang == Fixed("Bang")
UMinus == Fixed("UMinus")
Goto == Fixed("Goto")
If == Fixed("If")
Input == Fixed("Input")
Let == Fixed("Let")
PrintKw == Fixed("Print")
Rem == Fixed("Rem")
Then == Fixed("Then")

None == [tag |-> "None"]
Some(v) == [tag |-> "Some", val |-> v]
Ok(v) == [tag |-> "Ok", val |-> v]
Err(msg) == [tag |-> "Err", msg |-> msg]

token_for_string(token_str) ==
    CASE token_str = <<"=">> -> Some(Equals)
      [] token_str = <<"<">> -> Some(LessThan)
      [] token_str = <<">">> -> Some(GreaterThan)
      [] token_str = <<"<", "=">> -> Some(LessThanEqual)
      [] token_str = <<">", "=">> -> Some(GreaterThanEqual)
      [] token_str = <<"<", ">">> -> Some(NotEqual)
      [] token_str = <<"*">> -> Some(Multiply)
      [] token_str = <<"/">> -> Some(Divide)
      [] token_str = <<"-">> -> Some(Minus)
      [] token_str = <<"+">> -> Some(Plus)
      [] token_str = <<"(">> -> Some(LParen)
      [] token_str = <<")">> -> Some(RParen)
      [] token_str = <<"!">> -> Some(Bang)
      [] token_str = <<"G", "O", "T", "O">> -> Some(Goto)
      [] token_str = <<"I", "F">> -> Some(If)
      [] token_str = <<"I", "N", "P", "U", "T">> -> Some(Input)
      [] token_str = <<"L", "E", "T">> -> Some(Let)
      [] token_str = <<"P", "R", "I", "N", "T">> -> Some(PrintKw)
      [] token_str = <<"R", "E", "M">> -> Some(Rem)
      [] token_str = <<"T", "H", "E", "N">> -> Some(Then)
      [] OTHER -> None

is_operator(t) ==
    t.kind \in {"Equals", "LessThan", "GreaterThan", "LessThanEqual",
                "NotEqual", "Multiply", "Divide", "Minus", "Plus"}

\* Mutant: a closing parenthesis counts as a value.
is_value_or_rparen(t) == t.kind \in {"Variable", "Number", "BString", "RParen"}

is_value(t) == t.kind \in {"Variable", "Number", "BString"}

operator_precedence(t) ==
    IF t.kind \in {"Multiply", "Divide"} THEN Ok(10)
    ELSE IF t.kind \in {"Minus", "Plus"} THEN Ok(8)
    ELSE IF t.kind \in {"Equals", "LessThan", "GreaterThan", "LessThanEqual",
                        "NotEqual"} THEN Ok(4)
    ELSE Err("Not an operator")

(***************************************************************************)
(* is_valid_identifier                                                     *)
(***************************************************************************)
\* Mutant: a leading underscore is accepted.
is_valid_identifier_underscore(token_str) ==
    /\ token_str # <<>>
    /\ \A i \in 1..Len(token_str) :
           token_str[i] \in AsciiLetters \cup AsciiDigits \cup {"_"}
    /\ Head(token_str) \notin AsciiDigits

is_valid_identifier(token_str) ==
    /\ token_str # <<>>
    /\ Head(token_str) \in AsciiLetters
    /\ \A i \in 2..Len(token_str) :
           token_str[i] \in AsciiLetters \cup AsciiDigits \cup {"_"}

(***************************************************************************)
(* The character iterator.  An iterator over a line is the index of the    *)
(* character next() yields next; it is exhausted at Len(line) + 1.  The     *)
(* predicate of an adaptor is given as keep, the set of the indices of the *)
(* line whose character satisfies it.                                      *)
(***************************************************************************)
\* The first index from i on whose character fails the predicate, or
\* Len(l) + 1.
FirstNot(l, i, keep) ==
    LET S == {j \in i..Len(l) : j \notin keep}
    IN  IF S = {} THEN Len(l) + 1 ELSE CHOOSE j \in S : \A k \in S : j <= k

\* Iterator::take_while also consumes the first character that fails the
\* predicate.
take_while(l, i, keep) ==
    LET j == FirstNot(l, i, keep)
    IN  [items |-> SubSeq(l, i, j - 1),
         rest |-> IF j > Len(l) THEN Len(l) + 1 ELSE j + 1]

\* Itertools::peeking_take_while leaves the first character that fails the
\* predicate.
peeking_take_while(l, i, keep) ==
    LET j == FirstNot(l, i, keep)
    IN  [items |-> SubSeq(l, i, j - 1), rest |-> j]

\* Iterator::next on an iterator at i.
next(l, i) == IF i > Len(l) THEN Len(l) + 1 ELSE i + 1

(***************************************************************************)
(* tokenize_line                                                           *)
(* The state of the loop is [char_iter, line_number, tokens, ret]; ret is  *)
(* Running until the function returns.  In each branch below char_iter is  *)
(* the index of the character ch that the iteration takes with next(), so  *)
(* pos = char_iter - 1.                                                    *)
(***************************************************************************)
Running == [tag |-> "Running"]

LineNumber(n) == n
TokenAndPos(pos, t) == <<pos, t>>
LineOfCode(n, ts) == [line_number |-> n, tokens |-> ts]

push(st, pos, t) == [st EXCEPT !.tokens = Append(@, TokenAndPos(pos, t))]

\* The predicates handed to the iterator adaptors.
NumberChar(x) == ~is_whitespace(x)
\* Mutant: a string also ends at whitespace.
StringCharNoSpace(x) == x # "\"" /\ ~is_whitespace(x)

StringChar(x) == x # "\""
TokenChar(x) == ~is_whitespace(x) \/ x = ")"

\* Mutant: the offset right after the three letters of REM.
CommentPosAfterRem(pos) == pos + 3

\* The offset given to the Comment token after a Rem at pos.
CommentPos(pos) == pos + 4

line_number_phase(l, st) ==
    LET ch == l[st.char_iter]
        tw == take_while(l, st.char_iter + 1, {j \in DOMAIN l : NumberChar(l[j])})
        num_str == <<ch>> \o tw.items
        number == u32_from_str(num_str)
    IN  IF is_numeric(ch)
        THEN IF number.ok
             THEN [st EXCEPT !.char_iter = tw.rest,
                             !.line_number = LineNumber(number.val)]
             ELSE [st EXCEPT !.char_iter = tw.rest,
                             !.ret = Err(<<"Line must start with number followed by whitespace:", l>>)]
        ELSE [st EXCEPT !.char_iter = @ + 1,
                        !.ret = Err(<<"Line must start with a line number:", l>>)]

\* Mutant: the offset of the first character inside the quotes.
scan_string_inner_pos(l, st) ==
    LET pos == st.char_iter
        tw == take_while(l, st.char_iter + 1, {j \in DOMAIN l : StringChar(l[j])})
    IN  push([st EXCEPT !.char_iter = tw.rest], pos, BString(tw.items))

scan_string(l, st) ==
    LET pos == st.char_iter - 1
        tw == take_while(l, st.char_iter + 1, {j \in DOMAIN l : StringChar(l[j])})
    IN  push([st EXCEPT !.char_iter = tw.rest], pos, BString(tw.items))

scan_minus(l, st) ==
    LET pos == st.char_iter - 1
        after == [st EXCEPT !.char_iter = @ + 1]
    IN  IF st.tokens # <<>> /\ is_value(st.tokens[Len(st.tokens)][2])
        THEN push(after, pos, Minus)
        ELSE push(after, pos, UMinus)

scan_token(l, st) ==
    LET pos == st.char_iter - 1
        ch == l[st.char_iter]
        tw == peeking_take_while(l, st.char_iter + 1,
                                 {j \in DOMAIN l : TokenChar(l[j])})
        token_str == <<ch>> \o tw.items
        after == [st EXCEPT !.char_iter = tw.rest]
        number == i32_from_str(token_str)
        token == token_for_string(token_str)
    IN  IF number.ok THEN push(after, pos, Number(number.val))
        ELSE IF token = None
        THEN IF is_valid_identifier(token_str)
             THEN push(after, pos, Variable(token_str))
             ELSE [after EXCEPT !.ret = Err(<<"Unimplemented token at", pos, token_str>>)]
        ELSE IF token.val = Rem
        THEN LET skipped == next(l, tw.rest)
                 comment_str == SubSeq(l, skipped, Len(l))
             IN  push(push([st EXCEPT !.char_iter = Len(l) + 1], pos, Rem),
                      CommentPos(pos), Comment(comment_str))
        ELSE push(after, pos, token.val)

\* Mutant: no branch of its own for the exclamation mark.
scan_bang_as_token(l, st) == scan_token(l, st)

scan_bang(l, st) ==
    push([st EXCEPT !.char_iter = @ + 1], st.char_iter - 1, Bang)

\* One iteration of the while loop, entered with a character left to read.
loop_body(l, st) ==
    LET pos == st.char_iter - 1
        ch == l[st.char_iter]
        after == [st EXCEPT !.char_iter = @ + 1]
    IN  IF pos = 0 THEN line_number_phase(l, st)
        ELSE IF is_whitespace(ch) THEN after
        ELSE IF ch = "\"" THEN scan_string(l, st)
        ELSE IF ch = "-" THEN scan_minus(l, st)
        ELSE IF ch = "!" THEN scan_bang(l, st)
        ELSE IF ch = "(" THEN push(after, pos, LParen)
        ELSE IF ch = ")" THEN push(after, pos, RParen)
        ELSE scan_token(l, st)

\* The state on entry: nothing read, LineNumber(0), no tokens.
Entry == [char_iter |-> 1, line_number |-> LineNumber(U32(0, 0)),
          tokens |-> <<>>, ret |-> Running]

\* What the function returns when the loop ends.
Return(st) == Ok(LineOfCode(st.line_number, st.tokens))

RECURSIVE while_loop(_, _)
while_loop(l, st) ==
    IF st.ret # Running THEN st.ret
    ELSE IF st.char_iter > Len(l) THEN Return(st)
    ELSE while_loop(l, loop_body(l, st))

tokenize_line(l) == while_loop(l, Entry)

(***************************************************************************)
(* Input lines.  A line is a line-number part followed by a body, and a    *)
(* body is a concatenation of pieces: whitespace, the special characters,  *)
(* the fixed spellings, literals, identifiers and malformed text.          *)
(***************************************************************************)
MaxPieces == 3

Prefixes ==
    {<<>>,
     <<"1", "0", " ">>,
     <<"1", "0">>,
     <<"5", "\t">>,
     <<"0", "0", "7", " ">>,
     <<"1", "0", "B", " ">>,
     <<"1", "!", " ">>,
     <<"4", "2", "9", "4", "9", "6", "7", "2", "9", "5", " ">>,
     <<"4", "2", "9", "4", "9", "6", "7", "2", "9", "6", " ">>,
     <<"4", "2", "9", "4", "9", "6", "7", "3", "0", "0">>,
     <<"9", "9", "9", "9", "9", "9", "9", "9", "9", "9", "9", " ">>,
     <<"0", "0", "0", "0", "0", "0", "0", "0", "0", "0", "1", "2", " ">>,
     <<"6", "5", "5", "3", "6", " ">>,
     <<"R", "E", "M", " ">>,
     <<" ", "1", " ">>,
     <<"-", "1", " ">>,
     <<"+", "1", " ">>,
     <<"²", " ">>,
     <<"³", " ">>,
     <<"½">>,
     <<"U+0663", " ">>,
     <<"U+2167", " ">>,
     <<"1", "0", "\f">>,
     <<"1", "0", "\n">>,
     <<"1", "0", "U+2003">>,
     <<"1", "0", "\r", "\n">>}

CorePieces ==
    {<<" ">>, <<"\t">>, <<"A">>, <<"5">>, <<"-">>, <<"!">>, <<"(">>, <<")">>,
     <<"\"">>, <<"=">>, <<"R", "E", "M">>, <<"G", "O", "T", "O">>}

WidePieces ==
    CorePieces \cup
    {<<"<">>, <<">">>, <<"<", "=">>, <<">", "=">>, <<"<", ">">>, <<"*">>,
     <<"/">>, <<"+">>, <<"I", "F">>,
     <<"I", "N", "P", "U", "T">>, <<"L", "E", "T">>,
     <<"P", "R", "I", "N", "T">>, <<"T", "H", "E", "N">>,
     <<"r", "e", "m">>, <<"b", "_", "1">>, <<"_">>, <<"#", "A">>,
     <<"+", "5">>, <<"0", "0", "7">>, <<"²">>, <<"\r">>, <<"\n">>,
     <<"U+2003">>, <<"A", "\r">>,
     <<"2", "1", "4", "7", "4", "8", "3", "6", "4", "7">>,
     <<"2", "1", "4", "7", "4", "8", "3", "6", "4", "8">>}

RECURSIVE Flatten(_)
Flatten(ps) == IF ps = <<>> THEN <<>> ELSE Head(ps) \o Flatten(Tail(ps))

\* The concatenations of at most n pieces of S.
Bodies(S, n) == {Flatten(ps) : ps \in UNION {[1..k -> S] : k \in 0..n}}

Lines ==
    {<<"1", "0", " ">> \o b : b \in Bodies(CorePieces, MaxPieces)}
    \cup {<<"1", "0", " ">> \o b : b \in Bodies(WidePieces, MaxPieces - 1)}
    \cup {p \o b : p \in Prefixes, b \in Bodies(WidePieces, 1)}

\* The tokens handed to Token's predicates.
MaxNumber == 8

Texts == {<<>>, <<"A">>, <<"b", "_", "1">>, <<"F", "O", "O", " ", "B", "A", "R">>}

Tokens ==
    {Fixed(k) : k \in {"Equals", "LessThan", "GreaterThan", "LessThanEqual",
                       "GreaterThanEqual", "NotEqual", "Multiply", "Divide",
                       "Minus", "Plus", "LParen", "RParen", "Bang", "UMinus",
                       "Goto", "If", "Input", "Let", "Print", "Rem", "Then"}}
    \cup {Number(n) : n \in -MaxNumber..MaxNumber}
    \cup {Number(I32Max), Number(I32Min)}
    \cup {Variable(s) : s \in Texts \ {<<>>}}
    \cup {BString(s) : s \in Texts}
    \cup {Comment(s) : s \in Texts}

(***************************************************************************)
(* Spec: tokenize_line on a line of Lines, one loop iteration per step.    *)
(***************************************************************************)
State == [char_iter |-> char_iter, line_number |-> line_number,
          tokens |-> tokens, ret |-> ret]

Becomes(st) ==
    /\ char_iter' = st.char_iter
    /\ line_number' = st.line_number
    /\ tokens' = st.tokens
    /\ ret' = st.ret
    /\ UNCHANGED <<line, tok, answer>>

Init ==
    /\ line \in Lines
    /\ char_iter = Entry.char_iter
    /\ line_number = Entry.line_number
    /\ tokens = Entry.tokens
    /\ ret = Entry.ret
    /\ tok = None
    /\ answer = None

\* The loop condition holds: char_iter.peek() != None.
AtLoopHead == ret = Running /\ char_iter <= Len(line)

Iterate == Becomes(loop_body(line, State))

\* pos == 0, each of its three outcomes.
LineNumberOk ==
    /\ AtLoopHead /\ char_iter = 1 /\ is_numeric(line[1])
    /\ Iterate /\ ret' = Running

LineNumberInvalid ==
    /\ AtLoopHead /\ char_iter = 1 /\ is_numeric(line[1])
    /\ Iterate /\ ret' # Running

LineNumberMissing ==
    /\ AtLoopHead /\ char_iter = 1 /\ ~is_numeric(line[1])
    /\ Iterate

SkipWhitespace ==
    /\ AtLoopHead /\ char_iter > 1 /\ is_whitespace(line[char_iter])
    /\ Iterate

ScanString ==
    /\ AtLoopHead /\ char_iter > 1 /\ line[char_iter] = "\""
    /\ Iterate

ScanMinus ==
    /\ AtLoopHead /\ char_iter > 1 /\ line[char_iter] = "-"
    /\ Iterate

ScanBang ==
    /\ AtLoopHead /\ char_iter > 1 /\ line[char_iter] = "!"
    /\ Iterate

ScanLParen ==
    /\ AtLoopHead /\ char_iter > 1 /\ line[char_iter] = "("
    /\ Iterate

ScanRParen ==
    /\ AtLoopHead /\ char_iter > 1 /\ line[char_iter] = ")"
    /\ Iterate

\* The last branch: a run of characters up to the next whitespace.
AtToken ==
    /\ AtLoopHead /\ char_iter > 1
    /\ ~is_whitespace(line[char_iter])
    /\ line[char_iter] \notin {"\"", "-", "!", "(", ")"}

ScanNumber ==
    /\ AtToken /\ Iterate
    /\ ret' = Running /\ tokens'[Len(tokens')][2].kind = "Number"

ScanVariable ==
    /\ AtToken /\ Iterate
    /\ ret' = Running /\ tokens'[Len(tokens')][2].kind = "Variable"

ScanRem ==
    /\ AtToken /\ Iterate
    /\ ret' = Running /\ tokens'[Len(tokens')][2].kind = "Comment"

ScanFixed ==
    /\ AtToken /\ Iterate
    /\ ret' = Running
    /\ tokens'[Len(tokens')][2].kind \notin {"Number", "Variable", "Comment"}

ScanUnimplemented ==
    /\ AtToken /\ Iterate
    /\ ret' # Running

\* The loop ends: Ok(LineOfCode { line_number, tokens }).
ReturnOk ==
    /\ ret = Running /\ char_iter > Len(line)
    /\ ret' = Return(State)
    /\ UNCHANGED <<line, char_iter, line_number, tokens, tok, answer>>

Next ==
    \/ LineNumberOk \/ LineNumberInvalid \/ LineNumberMissing
    \/ SkipWhitespace \/ ScanString \/ ScanMinus \/ ScanBang
    \/ ScanLParen \/ ScanRParen
    \/ ScanNumber \/ ScanVariable \/ ScanRem \/ ScanFixed \/ ScanUnimplemented
    \/ ReturnOk

Spec == Init /\ [][Next]_vars

(***************************************************************************)
(* SpecPrec: Token's predicates applied to a token of Tokens.              *)
(***************************************************************************)
InitPrec ==
    /\ line = <<>>
    /\ char_iter = Entry.char_iter
    /\ line_number = Entry.line_number
    /\ tokens = Entry.tokens
    /\ ret = Entry.ret
    /\ tok \in {Some(t) : t \in Tokens}
    /\ answer = None

CallOperatorPrecedence ==
    /\ tok # None /\ answer = None
    /\ answer' = Some([fn |-> "operator_precedence",
                       val |-> operator_precedence(tok.val)])
    /\ UNCHANGED <<line, char_iter, line_number, tokens, ret, tok>>

CallIsOperator ==
    /\ tok # None /\ answer = None
    /\ answer' = Some([fn |-> "is_operator", val |-> is_operator(tok.val)])
    /\ UNCHANGED <<line, char_iter, line_number, tokens, ret, tok>>

CallIsValue ==
    /\ tok # None /\ answer = None
    /\ answer' = Some([fn |-> "is_value", val |-> is_value(tok.val)])
    /\ UNCHANGED <<line, char_iter, line_number, tokens, ret, tok>>

NextPrec == CallOperatorPrecedence \/ CallIsOperator \/ CallIsValue

SpecPrec == InitPrec /\ [][NextPrec]_vars

(***************************************************************************)
(* Properties.  What the properties say about text is written here from    *)
(* the text alone, apart from the operators of the tokenizer above.        *)
(***************************************************************************)
Range(f) == {f[i] : i \in DOMAIN f}

Last(f) == f[Len(f)]

RECURSIVE StripZeros(_)
StripZeros(s) ==
    IF s # <<>> /\ Head(s) = "0" THEN StripZeros(Tail(s)) ELSE s

\* Digit strings of equal length, compared as numbers.
RECURSIVE DigitsLeq(_, _)
DigitsLeq(a, b) ==
    \/ a = <<>>
    \/ DigitValue(Head(a)) < DigitValue(Head(b))
    \/ Head(a) = Head(b) /\ DigitsLeq(Tail(a), Tail(b))

\* s is a nonempty string of ASCII digits whose value is at most limit,
\* a digit string without leading zeros.
IsDecimalUpTo(s, limit) ==
    /\ s # <<>>
    /\ \A i \in 1..Len(s) : s[i] \in AsciiDigits
    /\ LET c == StripZeros(s)
       IN  \/ Len(c) < Len(limit)
           \/ Len(c) = Len(limit) /\ DigitsLeq(c, limit)

DigitChar(d) ==
    CASE d = 0 -> "0" [] d = 1 -> "1" [] d = 2 -> "2" [] d = 3 -> "3"
      [] d = 4 -> "4" [] d = 5 -> "5" [] d = 6 -> "6" [] d = 7 -> "7"
      [] d = 8 -> "8" [] d = 9 -> "9"

\* The decimal digits of a natural number, none for zero.
RECURSIVE NatDecimal(_)
NatDecimal(n) ==
    IF n = 0 THEN <<>> ELSE Append(NatDecimal(n \div 10), DigitChar(n % 10))

\* The decimal digits of a two-limb value, none for zero (long division).
RECURSIVE LimbsDecimal(_)
LimbsDecimal(v) ==
    IF v = <<0, 0>> THEN <<>>
    ELSE LET t == (v[1] % 10) * 65536 + v[2]
         IN  Append(LimbsDecimal(<<v[1] \div 10, t \div 10>>), DigitChar(t % 10))

TextU32Max == <<"4", "2", "9", "4", "9", "6", "7", "2", "9", "5">>
TextI32Max == <<"2", "1", "4", "7", "4", "8", "3", "6", "4", "7">>

\* The last index of the maximal run of non-whitespace characters from i on.
RunEnd(l, i) ==
    CHOOSE e \in i..Len(l) :
        /\ \A k \in i..e : l[k] \notin UnicodeWhiteSpace
        /\ e = Len(l) \/ l[e + 1] \in UnicodeWhiteSpace

RunAt(l, i) == SubSeq(l, i, RunEnd(l, i))

\* The line-number span: from offset 0 to the first whitespace or the end.
Span(l) == RunAt(l, 1)

\* The loop run step by step returns what the function returns.
StepwiseAgrees == ret # Running => ret = tokenize_line(line)

\* The scanner has finished the line-number phase without an error.
InTokenPhase == char_iter > 1 /\ (ret.tag = "Err" => ret.msg[1] = "Unimplemented token at")

(* C1: every line that does not start with a digit, the empty line         *)
(* included, makes tokenize_line return an error and never a LineOfCode.   *)
C1_NoLineNumberIsError ==
    (ret # Running /\ (line = <<>> \/ line[1] \notin AsciiDigits))
        => ret.tag = "Err"

(* C2: for a line that starts with a digit, the span from offset 0 to the  *)
(* first whitespace or the end of the line decides the line number: if it  *)
(* is a decimal number of at most 4294967295 the line-number phase         *)
(* succeeds and a result's line_number is that number, and otherwise       *)
(* tokenize_line returns an error.                                         *)
C2_LineNumberIsSpan ==
    (line # <<>> /\ line[1] \in AsciiDigits /\ (char_iter > 1 \/ ret # Running))
        => IF IsDecimalUpTo(Span(line), TextU32Max)
           THEN /\ InTokenPhase
                /\ LimbsDecimal(line_number) = StripZeros(Span(line))
                /\ ret.tag = "Ok" => ret.val.line_number = line_number
           ELSE ret.tag = "Err"

C2_Witness ==
    /\ ret.tag = "Ok" /\ line # <<>>
    /\ Span(line) = TextU32Max
    /\ ret.val.line_number = <<65535, 65535>>

\* The fixed spellings a run can have, each with its token.
FixedSpellings ==
    {<<<<"=">>, "Equals">>, <<<<"<">>, "LessThan">>, <<<<">">>, "GreaterThan">>,
     <<<<"<", "=">>, "LessThanEqual">>, <<<<">", "=">>, "GreaterThanEqual">>,
     <<<<"<", ">">>, "NotEqual">>, <<<<"*">>, "Multiply">>, <<<<"/">>, "Divide">>,
     <<<<"+">>, "Plus">>, <<<<"G", "O", "T", "O">>, "Goto">>, <<<<"I", "F">>, "If">>,
     <<<<"I", "N", "P", "U", "T">>, "Input">>, <<<<"L", "E", "T">>, "Let">>,
     <<<<"P", "R", "I", "N", "T">>, "Print">>, <<<<"R", "E", "M">>, "Rem">>,
     <<<<"T", "H", "E", "N">>, "Then">>}

\* The digits of a run that reads as a signed decimal number; runs do not
\* begin with a minus sign.
SignedDigits(run) == IF Head(run) = "+" THEN Tail(run) ELSE run

IdentifierShape(run) ==
    /\ Head(run) \in AsciiLetters
    /\ \A i \in 2..Len(run) : run[i] \in AsciiLetters \cup AsciiDigits \cup {"_"}

\* This step appends exactly the token t at offset pos.
Emits(pos, t) == ret' = Running /\ tokens' = Append(tokens, <<pos, t>>)

(* C3: a run of non-whitespace characters that begins with none of         *)
(* " - ! ( ) becomes Number if it reads as a signed 32-bit integer, else   *)
(* the fixed token if it is one of the fixed spellings, else Variable if   *)
(* it has the shape of an identifier, and else tokenize_line returns an    *)
(* error with the run's text and offset.                                   *)
C3_RunClassification ==
    [][AtToken =>
        LET run == RunAt(line, char_iter)
            pos == char_iter - 1
        IN  IF IsDecimalUpTo(SignedDigits(run), TextI32Max)
            THEN /\ ret' = Running
                 /\ Len(tokens') = Len(tokens) + 1
                 /\ SubSeq(tokens', 1, Len(tokens)) = tokens
                 /\ Last(tokens')[1] = pos
                 /\ Last(tokens')[2].kind = "Number"
                 /\ NatDecimal(Last(tokens')[2].value) = StripZeros(SignedDigits(run))
            ELSE IF \E f \in FixedSpellings : f[1] = run
            THEN /\ ret' = Running
                 /\ Len(tokens') > Len(tokens)
                 /\ SubSeq(tokens', 1, Len(tokens)) = tokens
                 /\ \E f \in FixedSpellings :
                        f[1] = run /\ tokens'[Len(tokens) + 1] = <<pos, [kind |-> f[2]]>>
            ELSE IF IdentifierShape(run)
            THEN Emits(pos, [kind |-> "Variable", name |-> run])
            ELSE ret' = [tag |-> "Err", msg |-> <<"Unimplemented token at", pos, run>>]
    ]_vars

C3_Witness ==
    /\ ret.tag = "Ok"
    /\ line = <<"1", "0", " ", "G", "O", "T", "O", " ", "5">>
    /\ ret.val.tokens = <<<<3, [kind |-> "Goto"]>>,
                          <<8, [kind |-> "Number", value |-> 5]>>>>

(* C4: a token made for a '-' is Minus exactly when the token right before *)
(* it is Variable, Number or BString, and is UMinus otherwise: when it is  *)
(* the first token or follows an operator, a keyword or a parenthesis.     *)
C4_MinusIffAfterValue ==
    LET ts == IF ret.tag = "Ok" THEN ret.val.tokens ELSE tokens
    IN  \A i \in 1..Len(ts) :
            ts[i][2].kind \in {"Minus", "UMinus"} =>
                /\ line[ts[i][1] + 1] = "-"
                /\ ts[i][2].kind = "Minus" <=>
                       (i > 1 /\ ts[i - 1][2].kind \in {"Variable", "Number", "BString"})

C4_Witness ==
    /\ ret.tag = "Ok"
    /\ \E i \in 2..Len(ret.val.tokens) :
           /\ ret.val.tokens[i][2].kind = "Minus"
           /\ ret.val.tokens[i - 1][2].kind = "BString"

(* C5: a ')' ends a run without being taken into it, so a ')' written      *)
(* right after a token is a token of its own: the text (A) after the line  *)
(* number gives LParen, Variable("A"), RParen.                             *)
C5_CloseParenEndsRun ==
    /\ (ret.tag = "Err" /\ ret.msg[1] = "Unimplemented token at")
           => \A k \in 1..Len(ret.msg[3]) : ret.msg[3][k] # ")"
    /\ (ret # Running /\ line = <<"1", "0", " ", "(", "A", ")">>)
           => /\ ret.tag = "Ok"
              /\ ret.val.tokens = <<<<3, [kind |-> "LParen"]>>,
                                    <<4, [kind |-> "Variable", name |-> <<"A">>]>>,
                                    <<5, [kind |-> "RParen"]>>>>

(* C6: a run that is exactly REM at offset p gives Rem at p and then one   *)
(* Comment at p + 4 whose text is the rest of the line after one skipped   *)
(* character (empty when nothing follows REM); the Comment is the last     *)
(* token and the line succeeds.                                            *)
C6_RemComment ==
    /\ [][(AtToken /\ RunAt(line, char_iter) = <<"R", "E", "M">>) =>
            /\ ret' = Running
            /\ char_iter' = Len(line) + 1
            /\ tokens' = tokens \o
                   <<<<char_iter - 1, [kind |-> "Rem"]>>,
                     <<char_iter + 3,
                       [kind |-> "Comment",
                        text |-> SubSeq(line, char_iter + 4, Len(line))]>>>>
       ]_vars
    /\ [](\A i \in 1..Len(tokens) :
            tokens[i][2].kind = "Comment" =>
                /\ i = Len(tokens) /\ i > 1
                /\ tokens[i - 1][2].kind = "Rem"
                /\ ret.tag # "Err"
                /\ ret.tag = "Ok" => ret.val.tokens = tokens)

C6_Witness ==
    /\ line = <<"1", "0", " ", "R", "E", "M">>
    /\ ret.tag = "Ok"
    /\ ret.val.tokens = <<<<3, [kind |-> "Rem"]>>,
                          <<7, [kind |-> "Comment", text |-> <<>>]>>>>

(* C7: a '"' at the start of a token at offset p gives one BString at p    *)
(* whose text is every character after it up to the next '"', whitespace   *)
(* kept and both quotes dropped, and scanning goes on after the closing    *)
(* quote; without a closing quote the text runs to the end of the line     *)
(* and the line still succeeds.                                            *)
C7_StringLiteral ==
    [][(AtLoopHead /\ char_iter > 1 /\ line[char_iter] = "\"") =>
        LET closes == {j \in (char_iter + 1)..Len(line) : line[j] = "\""}
            close == IF closes = {} THEN Len(line) + 1
                     ELSE CHOOSE j \in closes : \A k \in closes : j <= k
        IN  /\ Emits(char_iter - 1,
                     [kind |-> "BString",
                      text |-> SubSeq(line, char_iter + 1, close - 1)])
            /\ char_iter' = IF closes = {} THEN Len(line) + 1 ELSE close + 1
    ]_vars

C7_Witness ==
    /\ line = <<"1", "0", " ", "\"", "A", " ">>
    /\ ret.tag = "Ok"
    /\ ret.val.tokens = <<<<3, [kind |-> "BString", text |-> <<"A", " ">>]>>>>

(* C8: operator_precedence is 10 for Multiply and Divide, 8 for Minus and  *)
(* Plus, 4 for each of the six comparison operators, and the error         *)
(* "Not an operator" for every other token.                                *)
C8_Precedence ==
    (answer # None /\ answer.val.fn = "operator_precedence") =>
        answer.val.val =
            IF tok.val.kind \in {"Multiply", "Divide"}
            THEN [tag |-> "Ok", val |-> 10]
            ELSE IF tok.val.kind \in {"Minus", "Plus"}
            THEN [tag |-> "Ok", val |-> 8]
            ELSE IF tok.val.kind \in {"Equals", "LessThan", "GreaterThan",
                                      "LessThanEqual", "GreaterThanEqual",
                                      "NotEqual"}
            THEN [tag |-> "Ok", val |-> 4]
            ELSE [tag |-> "Err", msg |-> "Not an operator"]

\* The character at index j lies inside a string literal or a comment.
InLiteral(j) ==
    \E t \in Range(tokens) :
        \/ t[2].kind = "BString" /\ t[1] + 1 < j /\ j <= t[1] + 1 + Len(t[2].text)
        \/ t[2].kind = "Comment" /\ t[1] < j

\* The character at index j lies inside a run that was rejected, after the
\* run's first character.
InRejectedRun(j) ==
    /\ ret.tag = "Err"
    /\ ret.msg[1] = "Unimplemented token at"
    /\ ret.msg[2] + 1 < j /\ j <= ret.msg[2] + Len(ret.msg[3])

\* The '!' characters the scanner has gone past, after the line number and
\* outside string literals and comments.
ScannedBangs ==
    IF InTokenPhase
    THEN {j \in 1..Len(line) :
            /\ line[j] = "!"
            /\ j > RunEnd(line, 1) /\ j < char_iter
            /\ ~InLiteral(j)}
    ELSE {}

(* C9 as stated: every '!' after the line number and outside a string      *)
(* literal or comment is tokenized as Bang at its offset, whether or not   *)
(* whitespace separates it from the text before or after it.               *)
C9_EveryBangIsToken ==
    \A j \in ScannedBangs : <<j - 1, [kind |-> "Bang"]>> \in Range(tokens)

(* C9 amended: every such '!' is a Bang token at its offset unless it is   *)
(* written right after the text of a run begun by another character, as    *)
(* in A!, where it is taken into the run and the run is rejected as an     *)
(* unrecognized token; so every successful result has a Bang for each.     *)
C9_BangIsTokenOrInRejectedRun ==
    /\ \A j \in ScannedBangs :
           <<j - 1, [kind |-> "Bang"]>> \in Range(tokens) \/ InRejectedRun(j)
    /\ (ret.tag = "Ok" /\ line # <<>>) =>
           \A j \in (RunEnd(line, 1) + 1)..Len(line) :
               (line[j] = "!" /\ ~InLiteral(j))
                   => <<j - 1, [kind |-> "Bang"]>> \in Range(ret.val.tokens)

C9_Witness ==
    /\ ret.tag = "Ok"
    /\ ret.val.tokens = <<<<3, [kind |-> "LParen"]>>,
                          <<4, [kind |-> "Bang"]>>,
                          <<5, [kind |-> "Variable", name |-> <<"A">>]>>>>

\* The single characters that are tokens wherever a token starts.
SpecialSpellings ==
    {<<<<"-">>, "Minus">>, <<<<"-">>, "UMinus">>, <<<<"!">>, "Bang">>,
     <<<<"(">>, "LParen">>, <<<<")">>, "RParen">>}

\* The text of token t begins at offset p of the line.
StartsAt(p, t) ==
    CASE t.kind = "BString" ->
             /\ p + 1 <= Len(line) /\ line[p + 1] = "\""
             /\ SubSeq(line, p + 2, p + 1 + Len(t.text)) = t.text
      [] t.kind = "Variable" ->
             SubSeq(line, p + 1, p + Len(t.name)) = t.name
      [] t.kind = "Number" ->
             /\ p + 1 <= Len(line) /\ line[p + 1] \notin UnicodeWhiteSpace
             /\ LET digits == SignedDigits(RunAt(line, p + 1))
                IN  /\ IsDecimalUpTo(digits, TextI32Max)
                    /\ NatDecimal(t.value) = StripZeros(digits)
      [] OTHER ->
             \E f \in FixedSpellings \cup SpecialSpellings :
                 f[2] = t.kind /\ SubSeq(line, p + 1, p + Len(f[1])) = f[1]

OffsetsIncrease(ts) == \A i \in 1..(Len(ts) - 1) : ts[i][1] < ts[i + 1][1]

(* C10 as stated: in a successful result the offsets strictly increase,    *)
(* every offset is smaller than the length of the line, and every token    *)
(* other than Comment has the offset of the first character of its text.   *)
C10_OffsetsWithinLine ==
    ret.tag = "Ok" =>
        LET ts == ret.val.tokens
        IN  /\ OffsetsIncrease(ts)
            /\ \A i \in 1..Len(ts) : 0 <= ts[i][1] /\ ts[i][1] < Len(line)
            /\ \A i \in 1..Len(ts) :
                   ts[i][2].kind # "Comment" => StartsAt(ts[i][1], ts[i][2])

(* C10 amended: the same, but only the tokens other than Comment have an   *)
(* offset smaller than the length of the line; a Comment has the offset of *)
(* its Rem plus 4, which is at most the length of the line plus 1.         *)
C10_OffsetsExceptComment ==
    ret.tag = "Ok" =>
        LET ts == ret.val.tokens
        IN  /\ OffsetsIncrease(ts)
            /\ \A i \in 1..Len(ts) :
                   IF ts[i][2].kind = "Comment"
                   THEN /\ i > 1 /\ ts[i - 1][2].kind = "Rem"
                        /\ ts[i][1] = ts[i - 1][1] + 4
                        /\ ts[i][1] <= Len(line) + 1
                   ELSE /\ 0 <= ts[i][1] /\ ts[i][1] < Len(line)
                        /\ StartsAt(ts[i][1], ts[i][2])

C10_Witness ==
    /\ ret.tag = "Ok"
    /\ Len(ret.val.tokens) = 3
    /\ ret.val.tokens[1][2].kind = "BString"
    /\ ret.val.tokens[3][2].kind = "Comment"
    /\ ret.val.tokens[3][1] = Len(line) + 1
====
